---- MODULE Spec2Model ----
(***************************************************************************)
(* A model of the board-game ranking scripts generate_page.py and          *)
(* rank_games.py: the Wilson scoring functions, the rank / complexity      *)
(* classifiers, the metadata parser, the memoized metadata fetch and the   *)
(* main pipeline (load rows, sort, select, enrich, render).                *)
(*                                                                         *)
(* Reals are fixed-point integers in thousandths (2.576 is 2576); a float  *)
(* division is a floor division of the scaled operands.                    *)
(***************************************************************************)
EXTENDS Integers, Sequences, FiniteSets, TLC

(***************************************************************************)
(* Bounds of the model.                                                    *)
(***************************************************************************)
MaxVotes == 3        \* vote counts given to the scoring functions: -MaxVotes..MaxVotes
MaxRank == 1100      \* ranks given to status_for_rank: -1..MaxRank
MaxWeight == 5       \* weights given to complexity_status reach MaxWeight.0
MaxLen == 3          \* entries in a document's versions list / version links
MaxCalls == 4        \* fetch_details calls of a direct caller
MaxRows == 4         \* rows of the input file
PageSize == 1        \* the page size (200 in main), scaled down with MaxRows

(***************************************************************************)
(* Program constants.                                                      *)
(***************************************************************************)
DEFAULT_Z == 2576
RANK_GAMES_Z == 2326
PRIOR_VOTES == 25
PRIOR_RATING == 6500
MinYear == 2025
SLEEP_SECONDS == 1

VARIABLES
    app,            \* the pure function applied and its result
    cache,          \* fetch_details' lru_cache: a set of [key, value] entries
    net,            \* what fetch_details did on the network, in order
    ret,            \* the last fetch_details call and its outcome
    calls,          \* fetch_details calls made by a direct caller
    csv,            \* the rows of the input file
    pc,             \* main's position
    all_games,      \* main's all_games: the loaded records, in file order
    games_recent,   \* main's games_recent: indices into all_games
    games_all,      \* main's games_all: indices into all_games
    top_ids,        \* main's top_ids
    k,              \* the position of main's loop over all_games
    detail_rows,    \* main's detail_rows
    out,            \* what main wrote: the views given to generate_html
    error           \* the exception that ended main

fetchVars == <<cache, net, ret>>
mainVars == <<csv, pc, all_games, games_recent, games_all, top_ids, k, detail_rows, out, error>>
vars == <<app, cache, net, ret, calls, csv, pc, all_games, games_recent, games_all,
          top_ids, k, detail_rows, out, error>>

(***************************************************************************)
(* Outcome of a call: a returned value or a raised exception.              *)
(***************************************************************************)
Ok(v) == [exc |-> "none", val |-> v]
Raise(e) == [exc |-> e, val |-> 0]

(***************************************************************************)
(* Scoring Engine.                                                         *)
(***************************************************************************)
RECURSIVE SqrtBisect(_, _, _)
SqrtBisect(x, lo, hi) ==
    IF lo >= hi THEN lo
    ELSE LET mid == (lo + hi + 1) \div 2
         IN  IF mid * mid <= x THEN SqrtBisect(x, mid, hi)
             ELSE SqrtBisect(x, lo, mid - 1)

\* math.sqrt of x millionths, in thousandths: sqrt(x / 10^6) * 10^3 is the
\* integer square root of x; raises ValueError (math domain error) on x < 0.
sqrt(x) ==
    IF x < 0 THEN Raise("ValueError")
    ELSE Ok(SqrtBisect(x, 0, IF x < 46340 THEN x ELSE 46340))

\* Lines 17-23: the arithmetic after the guard.  n is an integer; S and z are
\* thousandths; the operand of sqrt is kept in millionths.  Division by n = 0
\* raises ZeroDivisionError.
WilsonBody(n, S, z) ==
    IF n = 0 THEN Raise("ZeroDivisionError")
    ELSE LET R == S \div n
             p == (R - 1000) \div 9
             zz == (z * z) \div 1000
             denom == 1000 + zz \div n
             centre == p + zz \div (2 * n)
             root == sqrt((p * (1000 - p) + (zz * 1000) \div (4 * n)) \div n)
             adj == (z * root.val) \div 1000
         IN  IF root.exc # "none" THEN root
             ELSE IF denom = 0 THEN Raise("ZeroDivisionError")
             ELSE Ok(1000 + 9 * (((centre - adj) * 1000) \div denom))

wilson_guard_excludes_zero(n, S, z) ==
    IF n < 0 THEN Ok(0) ELSE WilsonBody(n, S, z)

wilson_lower_bound_10pt(n, S, z) ==
    IF n <= 0 THEN Ok(0) ELSE WilsonBody(n, S, z)

weighted_score(n, S) ==
    wilson_lower_bound_10pt(n + PRIOR_VOTES, S + PRIOR_VOTES * PRIOR_RATING, DEFAULT_Z)

(***************************************************************************)
(* Classifier.                                                             *)
(***************************************************************************)
status_cut_exclusive(rank) ==
    IF rank < 200 THEN <<"fire", "Bestseller">>
    ELSE IF rank < 1000 THEN <<"magnifier", "Rare find">>
    ELSE <<"gem", "Hidden gem">>

status_for_rank(rank) ==
    IF rank <= 200 THEN <<"fire", "Bestseller">>
    ELSE IF rank <= 1000 THEN <<"magnifier", "Rare find">>
    ELSE <<"gem", "Hidden gem">>

complexity_cut_inclusive(weight) ==
    IF weight <= 2000 THEN <<"green", "Light">>
    ELSE IF weight <= 3000 THEN <<"yellow", "Medium">>
    ELSE IF weight <= 4000 THEN <<"orange", "Complicated">>
    ELSE <<"red", "Hardcore">>

complexity_status(weight) ==
    IF weight < 2000 THEN <<"green", "Light">>
    ELSE IF weight < 3000 THEN <<"yellow", "Medium">>
    ELSE IF weight < 4000 THEN <<"orange", "Complicated">>
    ELSE <<"red", "Hardcore">>

\* dict.get(key, default) on a record whose set of fields grows with enrichment.
Get(g, key, default) == IF key \in DOMAIN g THEN g[key] ELSE default

\* _table_rows, line 160: the complexity label of one row.
RowComplexity(g) == complexity_status(Get(g, "weight", 0))

\* _table_rows, line 159: the rank label of one row.
RowStatus(g) == status_for_rank(g.bgg_rank)

(***************************************************************************)
(* Metadata parser.  A document is the part of the catalog's XML that      *)
(* parse_details reads:                                                    *)
(*   has_item  whether <items> holds an <item>                             *)
(*   type      the item's type attribute                                   *)
(*   weight    <<>> without an averageweight value, <<w>> with value w     *)
(*   impl      whether an inbound boardgameimplementation link exists      *)
(*   versions  the id attributes of the items under <versions>, in order   *)
(*   links     the id attributes of the inbound boardgameversion links     *)
(***************************************************************************)
Digit(d) == <<"0", "1", "2", "3", "4", "5", "6", "7", "8", "9">>[d + 1]

\* str(game_id) for a non-negative integer.
RECURSIVE ToStr(_)
ToStr(n) == IF n < 10 THEN Digit(n) ELSE ToStr(n \div 10) \o Digit(n % 10)

version_ids(doc, game_id) ==
    {doc.versions[i] : i \in {j \in DOMAIN doc.versions : doc.versions[j] # ToStr(game_id)}}

link_ids_keep_self(doc, game_id) ==
    {doc.links[i] : i \in DOMAIN doc.links}

link_ids(doc, game_id) ==
    {doc.links[i] : i \in {j \in DOMAIN doc.links : doc.links[j] # ToStr(game_id)}}

parse_details(doc, game_id) ==
    IF ~doc.has_item THEN Raise("AttributeError")
    ELSE LET weight == IF doc.weight = <<>> THEN 0 ELSE doc.weight[1]
             unique_versions == version_ids(doc, game_id) \cup link_ids(doc, game_id)
         IN  Ok([weight |-> weight,
                 is_expansion |-> doc.type = "boardgameexpansion",
                 reimplements |-> doc.impl,
                 has_versions |-> Cardinality(unique_versions) > 1,
                 n_versions |-> Cardinality(unique_versions)])

(***************************************************************************)
(* Inputs of the pure functions.                                           *)
(***************************************************************************)
SeqsUpTo(S, n) == UNION {[1..m -> S] : m \in 0..n}

Votes == (0 - MaxVotes)..MaxVotes
Scores == {500 * s : s \in (0 - 2)..(20 * MaxVotes)}
Zs == {0, RANK_GAMES_Z, DEFAULT_Z}
Ranks == (0 - 1)..MaxRank
Weights == (0 - 1000)..(1000 * MaxWeight)
AttrIds == {"1", "2", "3"}
ParseGameIds == {1, 2}
NoItemDoc ==
    [has_item |-> FALSE, type |-> "boardgame", weight |-> <<>>, impl |-> FALSE,
     versions |-> <<>>, links |-> <<>>]
ParseDocs ==
    [has_item : {TRUE}, type : {"boardgame", "boardgameexpansion"},
     weight : {<<>>, <<2500>>}, impl : BOOLEAN,
     versions : SeqsUpTo(AttrIds, MaxLen), links : SeqsUpTo(AttrIds, MaxLen)]
    \cup {NoItemDoc}

(***************************************************************************)
(* The pure functions, each applied once to an input of the bounded sets.   *)
(***************************************************************************)
CallWilson ==
    /\ app.fn = "none"
    /\ \E n \in Votes, S \in Scores, z \in Zs :
        app' = [fn |-> "wilson_lower_bound_10pt", n |-> n, S |-> S, z |-> z,
                out |-> wilson_lower_bound_10pt(n, S, z)]
    /\ UNCHANGED <<fetchVars, calls, mainVars>>

CallWeightedScore ==
    /\ app.fn = "none"
    /\ \E n \in Votes \cup {0 - PRIOR_VOTES, 0 - PRIOR_VOTES - 1}, S \in Scores :
        app' = [fn |-> "weighted_score", n |-> n, S |-> S,
                out |-> weighted_score(n, S)]
    /\ UNCHANGED <<fetchVars, calls, mainVars>>

CallStatusForRank ==
    /\ app.fn = "none"
    /\ \E rank \in Ranks :
        app' = [fn |-> "status_for_rank", rank |-> rank, out |-> status_for_rank(rank)]
    /\ UNCHANGED <<fetchVars, calls, mainVars>>

CallRowComplexity ==
    /\ app.fn = "none"
    /\ \E g \in {[id |-> 1]} \cup {[id |-> 1, weight |-> w] : w \in Weights} :
        app' = [fn |-> "_table_rows", g |-> g, out |-> RowComplexity(g)]
    /\ UNCHANGED <<fetchVars, calls, mainVars>>

CallParseDetails ==
    /\ app.fn = "none"
    /\ \E doc \in ParseDocs, game_id \in ParseGameIds :
        app' = [fn |-> "parse_details", doc |-> doc, game_id |-> game_id,
                out |-> parse_details(doc, game_id)]
    /\ UNCHANGED <<fetchVars, calls, mainVars>>

(***************************************************************************)
(* Metadata Enricher: fetch_details under functools.lru_cache.             *)
(*                                                                         *)
(* The catalog's answer to one request is the environment's choice: the    *)
(* transport fails (requests.get raises), the status is not 2xx            *)
(* (raise_for_status raises), or a document is served.                     *)
(***************************************************************************)
GameIds == {1, 2, 3}

DocA ==
    [has_item |-> TRUE, type |-> "boardgame", weight |-> <<1000>>, impl |-> FALSE,
     versions |-> <<"1">>, links |-> <<>>]
DocB ==
    [has_item |-> TRUE, type |-> "boardgameexpansion", weight |-> <<4000>>, impl |-> TRUE,
     versions |-> <<"2", "3">>, links |-> <<"4">>]

Responses ==
    {[kind |-> "transport_error", doc |-> NoItemDoc],
     [kind |-> "http_error", doc |-> NoItemDoc]}
    \cup {[kind |-> "ok", doc |-> d] : d \in {DocA, DocB, NoItemDoc}}

\* lru_cache keys an entry by the call's argument.
CacheKeyShared(game_id) == 0

CacheKey(game_id) == game_id

CacheEntries(c, game_id) == {e \in c : e.key = CacheKey(game_id)}

\* lru_cache stores what the wrapped function returns; a raised exception
\* passes through and stores nothing.
CacheStore(c, game_id, result) ==
    IF result.exc = "none" THEN c \cup {[key |-> CacheKey(game_id), value |-> result.val]}
    ELSE c

\* Lines 65-71, the wrapped function: pause, request, status check, parse.
FetchBody(game_id, resp) ==
    IF resp.kind = "transport_error" THEN Raise("RequestException")
    ELSE IF resp.kind = "http_error" THEN Raise("HTTPError")
    ELSE parse_details(resp.doc, game_id)

\* Lines 68-69: what a miss does on the network: time.sleep(1), then
\* requests.get.
NetEventsRequestFirst(game_id, resp) ==
    <<[op |-> "get", id |-> game_id, resp |-> resp, secs |-> 0],
      [op |-> "sleep", id |-> game_id, resp |-> resp, secs |-> SLEEP_SECONDS]>>

NetEvents(game_id, resp) ==
    <<[op |-> "sleep", id |-> game_id, resp |-> resp, secs |-> SLEEP_SECONDS],
      [op |-> "get", id |-> game_id, resp |-> resp, secs |-> 0]>>

\* One call fetch_details(game_id) in cache c with network log n, when the
\* catalog would answer resp: the new cache, the new log and the outcome.
fetch_details(c, n, game_id, resp) ==
    IF CacheEntries(c, game_id) # {}
    THEN [cache |-> c, net |-> n, hit |-> TRUE,
          result |-> Ok((CHOOSE e \in CacheEntries(c, game_id) : TRUE).value)]
    ELSE LET result == FetchBody(game_id, resp)
         IN  [cache |-> CacheStore(c, game_id, result),
              net |-> n \o NetEvents(game_id, resp),
              hit |-> FALSE,
              result |-> result]

Requests(n) == {i \in DOMAIN n : n[i].op = "get"}
RequestsFor(n, game_id) == {i \in Requests(n) : n[i].id = game_id}

NoCall == [game_id |-> 0, hit |-> FALSE, result |-> Raise("no call")]

\* A caller other than main (a test, enrich_games' caller) calls
\* fetch_details and handles what it raises, so that calls can follow a
\* failed one within the process.
CallFetchDetails ==
    /\ calls < MaxCalls
    /\ \E game_id \in GameIds, resp \in Responses :
          LET f == fetch_details(cache, net, game_id, resp)
          IN  /\ cache' = f.cache
              /\ net' = f.net
              /\ ret' = [game_id |-> game_id, hit |-> f.hit, result |-> f.result]
    /\ calls' = calls + 1
    /\ UNCHANGED <<app, mainVars>>

(***************************************************************************)
(* Record Loader.  A CSV field is the text csv.DictReader hands over:      *)
(*   num   an integer literal          (int and float both parse it)       *)
(*   dec   a decimal literal, v/1000   (float parses it, int raises)       *)
(*   text  anything else, also ""      (int and float raise ValueError)    *)
(*   none  None: the row is shorter than the header (int and float raise   *)
(*         TypeError)                                                      *)
(* The columns are all present in the header; Name and Thumbnail play no   *)
(* part and are left out.                                                  *)
(***************************************************************************)
Num(v) == [t |-> "num", v |-> v]
Dec(v) == [t |-> "dec", v |-> v]
Text == [t |-> "text", v |-> 0]
None == [t |-> "none", v |-> 0]

int(tok) ==
    IF tok.t = "num" THEN Ok(tok.v)
    ELSE IF tok.t = "none" THEN Raise("TypeError")
    ELSE Raise("ValueError")

float(tok) ==
    IF tok.t = "num" THEN Ok(1000 * tok.v)
    ELSE IF tok.t = "dec" THEN Ok(tok.v)
    ELSE IF tok.t = "none" THEN Raise("TypeError")
    ELSE Raise("ValueError")

\* Lines 128-142, the body of read_games' loop for one row: "continue", a
\* raised exception, or the record appended to games.
LoadRow(row) ==
    LET parsed == <<int(row.ID), int(row.Users_rated), float(row.Average), int(row.Rank)>>
        bad == {i \in DOMAIN parsed : parsed[i].exc # "none"}
        first == CHOOSE i \in bad : \A j \in bad : i <= j
    IN  IF bad # {}
        THEN IF parsed[first].exc \in {"ValueError", "KeyError"}
             THEN [exc |-> "continue", val |-> 0]
             ELSE parsed[first]
        ELSE LET n == parsed[2].val
                 S == parsed[3].val * n
                 wilson == wilson_lower_bound_10pt(n, S, DEFAULT_Z)
                 weighted == weighted_score(n, S)
             IN  IF wilson.exc # "none" THEN wilson
                 ELSE IF weighted.exc # "none" THEN weighted
                 ELSE Ok([Year |-> row.Year, Users_rated |-> row.Users_rated,
                          Average |-> row.Average, wilson |-> wilson.val,
                          weighted |-> weighted.val, bgg_rank |-> parsed[4].val,
                          id |-> parsed[1].val])

RECURSIVE ReadFrom(_, _, _)
ReadFrom(rows, i, games) ==
    IF i > Len(rows) THEN Ok(games)
    ELSE LET r == LoadRow(rows[i])
         IN  IF r.exc = "continue" THEN ReadFrom(rows, i + 1, games)
             ELSE IF r.exc # "none" THEN r
             ELSE ReadFrom(rows, i + 1, Append(games, r.val))

read_games(rows) == ReadFrom(rows, 1, <<>>)

(***************************************************************************)
(* Report Assembler: main, lines 334-354.  games_recent and games_all hold *)
(* the very records of all_games (Python references): they are sequences   *)
(* of indices into all_games.                                              *)
(***************************************************************************)
Range(f) == {f[i] : i \in DOMAIN f}
Take(seq, n) == SubSeq(seq, 1, IF n < Len(seq) THEN n ELSE Len(seq))

\* Line 335: [g for g in all_games if int(g.get("Year", 0)) >= min_year].
RECURSIVE RecentFrom(_, _, _, _)
RecentFrom(games, min_year, i, acc) ==
    IF i > Len(games) THEN Ok(acc)
    ELSE LET year == int(Get(games[i], "Year", Num(0)))
         IN  IF year.exc # "none" THEN year
             ELSE RecentFrom(games, min_year, i + 1,
                             IF year.val >= min_year THEN Append(acc, i) ELSE acc)

\* list.sort(key=weighted, reverse=True) is stable: a record goes after the
\* records with a greater or equal key that came before it.
InsertBeforeEqual(games, sorted, x) ==
    LET pos == Cardinality({j \in DOMAIN sorted :
                               games[sorted[j]].weighted > games[x].weighted})
    IN  SubSeq(sorted, 1, pos) \o <<x>> \o SubSeq(sorted, pos + 1, Len(sorted))

InsertStable(games, sorted, x) ==
    LET pos == Cardinality({j \in DOMAIN sorted :
                               games[sorted[j]].weighted >= games[x].weighted})
    IN  SubSeq(sorted, 1, pos) \o <<x>> \o SubSeq(sorted, pos + 1, Len(sorted))

RECURSIVE SortFrom(_, _, _, _)
SortFrom(games, idxs, i, acc) ==
    IF i > Len(idxs) THEN acc
    ELSE SortFrom(games, idxs, i + 1, InsertStable(games, acc, idxs[i]))

SortByWeighted(games, idxs) == SortFrom(games, idxs, 1, <<>>)

\* Line 339.
TopIdsOfWholeLists(games, recent, all) ==
    {games[i].id : i \in Range(recent)} \cup {games[i].id : i \in Range(all)}

TopIds(games, recent, all) ==
    {games[i].id : i \in Range(Take(recent, PageSize))}
    \cup {games[i].id : i \in Range(Take(all, PageSize))}

\* dict.update: the fields of d are written over g.
Update(g, d) == [f \in DOMAIN g \cup DOMAIN d |-> IF f \in DOMAIN d THEN d[f] ELSE g[f]]

\* _table_rows: the data of the rows of one view.
TableRows(games, view) ==
    [j \in DOMAIN view |->
        LET g == games[view[j]]
        IN  [idx |-> view[j], id |-> g.id, status |-> RowStatus(g),
             complexity |-> RowComplexity(g),
             is_expansion |-> Get(g, "is_expansion", FALSE),
             reimplements |-> Get(g, "reimplements", FALSE),
             has_versions |-> Get(g, "has_versions", FALSE),
             weight |-> Get(g, "weight", 0),
             wilson |-> g.wilson, weighted |-> g.weighted]]

NoError == [exc |-> "none", at |-> "none"]
NoOutput == [written |-> FALSE, details |-> <<>>, recent |-> <<>>, all |-> <<>>]

\* Lines 334-339: load, filter, sort, select.  An exception leaves main.
MainLoad ==
    /\ pc = "start"
    /\ LET r == read_games(csv)
           recent == RecentFrom(r.val, MinYear, 1, <<>>)
           sorted_recent == SortByWeighted(r.val, recent.val)
           sorted_all == SortByWeighted(r.val, [i \in DOMAIN r.val |-> i])
       IN  IF r.exc # "none"
           THEN /\ pc' = "aborted"
                /\ error' = [exc |-> r.exc, at |-> "read_games"]
                /\ UNCHANGED <<all_games, games_recent, games_all, top_ids>>
           ELSE IF recent.exc # "none"
           THEN /\ pc' = "aborted"
                /\ error' = [exc |-> recent.exc, at |-> "main:335"]
                /\ all_games' = r.val
                /\ UNCHANGED <<games_recent, games_all, top_ids>>
           ELSE /\ pc' = "enrich"
                /\ all_games' = r.val
                /\ games_recent' = sorted_recent
                /\ games_all' = sorted_all
                /\ top_ids' = TopIds(r.val, sorted_recent, sorted_all)
                /\ UNCHANGED error
    /\ UNCHANGED <<app, fetchVars, calls, csv, k, detail_rows, out>>

\* Lines 341-347: one iteration of the loop over all_games.
EnrichStep ==
    /\ pc = "enrich"
    /\ k <= Len(all_games)
    /\ LET g == all_games[k]
       IN  IF g.id \notin top_ids
           THEN /\ k' = k + 1
                /\ UNCHANGED <<fetchVars, pc, all_games, detail_rows, error>>
           ELSE \E resp \in Responses :
                  LET f == fetch_details(cache, net, g.id, resp)
                  IN  /\ cache' = f.cache
                      /\ net' = f.net
                      /\ ret' = [game_id |-> g.id, hit |-> f.hit, result |-> f.result]
                      /\ IF f.result.exc # "none"
                         THEN /\ pc' = "aborted"
                              /\ error' = [exc |-> f.result.exc, at |-> "fetch_details"]
                              /\ UNCHANGED <<all_games, detail_rows, k>>
                         ELSE /\ all_games' = [all_games EXCEPT
                                                 ![k] = Update(g, f.result.val)]
                              /\ detail_rows' = Append(detail_rows,
                                                   Update([id |-> g.id], f.result.val))
                              /\ k' = k + 1
                              /\ UNCHANGED <<pc, error>>
    /\ UNCHANGED <<app, calls, csv, games_recent, games_all, top_ids, out>>

\* Lines 348-354: the details file and the report.
Render ==
    /\ pc = "enrich"
    /\ k > Len(all_games)
    /\ out' = [written |-> TRUE, details |-> detail_rows,
               recent |-> TableRows(all_games, Take(games_recent, PageSize)),
               all |-> TableRows(all_games, Take(games_all, PageSize))]
    /\ pc' = "done"
    /\ UNCHANGED <<app, fetchVars, calls, csv, all_games, games_recent, games_all,
                   top_ids, k, detail_rows, error>>

(***************************************************************************)
(* Input files.                                                            *)
(***************************************************************************)
Row(id, n, avg, rank, year) ==
    [ID |-> id, Users_rated |-> n, Average |-> avg, Rank |-> rank, Year |-> year]

RowPool ==
    {Row(Num(1), Num(10), Dec(8000), Num(150), Num(2025)),
     Row(Num(2), Num(10), Dec(8000), Num(500), Num(2020)),
     Row(Num(3), Num(10), Dec(7000), Num(1500), Num(2025)),
     Row(Num(1), Num(2), Num(6), Num(150), Num(2020)),
     Row(Text, Num(10), Dec(8000), Num(150), Num(2025)),
     Row(Num(2), Num(10), Text, Num(500), Num(2025)),
     Row(Num(3), Num(10), Dec(7000), Dec(1500000), Num(2025)),
     Row(Num(2), None, None, None, Num(2020)),
     Row(Num(2), Num(10), Dec(8000), Num(500), Text)}

(***************************************************************************)
(* Specifications.                                                         *)
(***************************************************************************)
InitIdle ==
    /\ app = [fn |-> "none"]
    /\ cache = {}
    /\ net = <<>>
    /\ ret = NoCall
    /\ calls = 0
    /\ all_games = <<>>
    /\ games_recent = <<>>
    /\ games_all = <<>>
    /\ top_ids = {}
    /\ k = 1
    /\ detail_rows = <<>>
    /\ out = NoOutput
    /\ error = NoError

\* One run of main on an input file, in a fresh process.
Init ==
    /\ InitIdle
    /\ csv \in SeqsUpTo(RowPool, MaxRows)
    /\ pc = "start"

Next ==
    \/ MainLoad
    \/ EnrichStep
    \/ Render

Spec == Init /\ [][Next]_vars

\* Calls of fetch_details in any order, in one process.
InitFetch ==
    /\ InitIdle
    /\ csv = <<>>
    /\ pc = "idle"

NextFetch == CallFetchDetails

SpecFetch == InitFetch /\ [][NextFetch]_vars

\* The pure functions on their own.
InitPure ==
    /\ InitIdle
    /\ csv = <<>>
    /\ pc = "idle"

NextPure ==
    \/ CallWilson
    \/ CallWeightedScore
    \/ CallStatusForRank
    \/ CallRowComplexity
    \/ CallParseDetails

SpecPure == InitPure /\ [][NextPure]_vars

(***************************************************************************)
(* Properties.                                                             *)
(***************************************************************************)
FailedRequests == {i \in Requests(net) : net[i].resp.kind # "ok"}

\* C1: a failed metadata fetch for one selected game (transport failure or
\* non-2xx response) does not abort the run of main: whenever a request has
\* failed, main is still running or has written the report.
C1_FetchFailureContained ==
    FailedRequests # {} => pc # "aborted"

\* C2: over any sequence of fetch_details calls in one process, at most one
\* network request is issued for a given game identifier, whatever the
\* outcome of the earlier calls for it.
C2_OneRequestPerId ==
    \A id \in GameIds : Cardinality(RequestsFor(net, id)) <= 1

WellFormed(row) ==
    /\ int(row.ID).exc = "none"
    /\ int(row.Year).exc = "none"
    /\ int(row.Users_rated).exc = "none"
    /\ float(row.Average).exc = "none"
    /\ int(row.Rank).exc = "none"

WellFormedRows == SelectSeq(csv, WellFormed)

\* C3: a row in which a required numeric field (game id, release year, vote
\* count, average rating, rank) is missing or does not parse is dropped
\* silently: it never aborts the run, and once the file is read the loaded
\* records are exactly the well-formed rows, in file order.
C3_MalformedRowsDropped ==
    pc # "start" =>
        /\ error.at \notin {"read_games", "main:335"}
        /\ Len(all_games) = Len(WellFormedRows)
        /\ \A i \in DOMAIN all_games :
              /\ Num(all_games[i].id) = WellFormedRows[i].ID
              /\ all_games[i].Year = WellFormedRows[i].Year

InViews(i) ==
    i \in Range(Take(games_recent, PageSize)) \cup Range(Take(games_all, PageSize))

ViewIds == {all_games[i].id : i \in {j \in DOMAIN all_games : InViews(j)}}

Enriched(i) == "weight" \in DOMAIN all_games[i]

Before(i, j) ==
    \/ all_games[i].weighted > all_games[j].weighted
    \/ all_games[i].weighted = all_games[j].weighted /\ i < j

\* list is the first n (or all) of cands in stable descending order.
IsStableTop(list, cands, n) ==
    /\ Len(list) = (IF n < Cardinality(cands) THEN n ELSE Cardinality(cands))
    /\ \A a \in DOMAIN list : list[a] \in cands
    /\ \A a, b \in DOMAIN list : a < b => Before(list[a], list[b])
    /\ \A a \in DOMAIN list : \A c \in cands \ Range(list) : Before(list[a], c)

RecentCandidates ==
    {i \in DOMAIN all_games : int(all_games[i].Year).val >= MinYear}

ViewIndices(view) == [j \in DOMAIN view |-> view[j].idx]

\* C5: each view handed to the renderer is exactly the first PageSize
\* records of its candidate set (recent: year >= threshold; all: every
\* loaded record) in descending order of weighted score, records of equal
\* score in file order; each view is the head of its own fully sorted list.
C5_ViewsStableTop ==
    out.written =>
        /\ IsStableTop(ViewIndices(out.recent), RecentCandidates, PageSize)
        /\ IsStableTop(ViewIndices(out.all), DOMAIN all_games, PageSize)
        /\ IsStableTop(games_recent, RecentCandidates, Len(all_games))
        /\ IsStableTop(games_all, DOMAIN all_games, Len(all_games))

\* C5's case: a report whose all view was truncated between two records of
\* equal score, the earlier one kept, while the recent view starts elsewhere.
C5_Witness ==
    /\ out.written
    /\ Len(games_all) > PageSize
    /\ \E i, j \in DOMAIN all_games :
          /\ i < j
          /\ all_games[i].weighted = all_games[j].weighted
          /\ i \in Range(ViewIndices(out.all))
          /\ j \notin Range(ViewIndices(out.all))
          /\ j \in Range(ViewIndices(out.recent))

\* The ids other than the game's own that occur in either source.
DistinctOtherIds(doc, game_id) ==
    {x \in Range(doc.versions) \cup Range(doc.links) : x # ToStr(game_id)}

C7_ReturnsOwnDocument ==
    ret.result.exc = "none" =>
        \E i \in RequestsFor(net, ret.game_id) :
            /\ net[i].resp.kind = "ok"
            /\ parse_details(net[i].resp.doc, ret.game_id).exc = "none"
            /\ parse_details(net[i].resp.doc, ret.game_id).val = ret.result.val

\* C7's case: a call answered from a cache that also holds different
\* details under another identifier.
C7_Witness ==
    /\ ret.hit
    /\ ret.result.exc = "none"
    /\ \E e \in cache : e.key # ret.game_id /\ e.value # ret.result.val

\* C8: wilson_lower_bound_10pt returns exactly 0.0 for every votes <= 0,
\* for any total score and any z, and raises nothing; weighted_score
\* inherits it when votes + PRIOR_VOTES <= 0.
C8_ZeroForNoVotes ==
    /\ (app.fn = "wilson_lower_bound_10pt" /\ app.n <= 0)
          => (app.out.exc = "none" /\ app.out.val = 0)
    /\ (app.fn = "weighted_score" /\ app.n + PRIOR_VOTES <= 0)
          => (app.out.exc = "none" /\ app.out.val = 0)

\* C8's case: zero votes with a total score other than zero.
C8_Witness ==
    /\ app.fn = "wilson_lower_bound_10pt"
    /\ app.n = 0
    /\ app.S > 0
    /\ app.z = DEFAULT_Z
    /\ app.out.val = 0

\* C9: status_for_rank gives Bestseller for every rank <= 200, Rare find
\* for every rank from 201 to 1000, Hidden gem for every rank >= 1001.
C9_RankCutPoints ==
    app.fn = "status_for_rank" =>
        /\ app.rank <= 200 => app.out[2] = "Bestseller"
        /\ (201 <= app.rank /\ app.rank <= 1000) => app.out[2] = "Rare find"
        /\ app.rank >= 1001 => app.out[2] = "Hidden gem"

\* C9's case: the first rank past the upper cut point.
C9_Witness ==
    /\ app.fn = "status_for_rank"
    /\ app.rank = 1001
    /\ app.out[2] = "Hidden gem"

\* The weight a row is classified with: its weight field, 0.0 without one.
RowWeight(g) == IF "weight" \in DOMAIN g THEN g.weight ELSE 0

\* C10: the complexity label of a row is Light for weight < 2, Medium for
\* 2 <= weight < 3, Complicated for 3 <= weight < 4, Hardcore for
\* weight >= 4; a row without a weight field is classified as weight 0.0,
\* Light.
C10_ComplexityLadder ==
    app.fn = "_table_rows" =>
        /\ RowWeight(app.g) < 2000 => app.out[2] = "Light"
        /\ (2000 <= RowWeight(app.g) /\ RowWeight(app.g) < 3000) => app.out[2] = "Medium"
        /\ (3000 <= RowWeight(app.g) /\ RowWeight(app.g) < 4000)
              => app.out[2] = "Complicated"
        /\ RowWeight(app.g) >= 4000 => app.out[2] = "Hardcore"
        /\ "weight" \notin DOMAIN app.g => app.out[2] = "Light"

\* C10's case: a row that was never enriched.
C10_Witness ==
    /\ app.fn = "_table_rows"
    /\ "weight" \notin DOMAIN app.g
    /\ app.out[2] = "Light"

\* Every request in the log directly follows a pause of one time unit made
\* by the same call.
PausedLog ==
    \A i \in Requests(net) :
        /\ i > 1
        /\ net[i - 1].op = "sleep"
        /\ net[i - 1].secs = 1
        /\ net[i - 1].id = net[i].id

\* C11: every catalog request made by fetch_details is immediately preceded
\* by a pause of one time unit, so no two requests are issued without a
\* pause between them; a call answered from the cache performs neither a
\* pause nor a request (it leaves the network log as it was).
C11_PauseBeforeRequest ==
    [][/\ PausedLog'
       /\ (calls' # calls /\ ret'.hit) => net' = net
       /\ (calls' # calls /\ ~ret'.hit) => Len(net') = Len(net) + 2]_vars

\* C11's case: two requests were issued, each after its pause, and the last
\* call was answered from the cache.
C11_Witness ==
    /\ Cardinality(Requests(net)) = 2
    /\ Len(net) = 4
    /\ ret.hit
    /\ calls = 3

====
